---- MODULE Spec2Model ----
(***************************************************************************)
(* A model of the importer package.                                        *)
(*                                                                         *)
(*   SpecSearch : importer/inputdir.py, find_date_dir -- the bounded       *)
(*                best-N search for the directory whose modification date  *)
(*                is closest to a target date.                             *)
(*   Spec       : importer/fileproc.py, FileProcessor.count_files and      *)
(*                FileProcessor.__call__ -- the files are counted, then    *)
(*                the source tree is replicated as a plain copy or as a    *)
(*                zip archive, followed by the alias symlink.              *)
(*   SpecTransplant, SpecFilter, SpecScore : single calls of               *)
(*                transplant_path, FileProcessor._remove_ignored and       *)
(*                datescore_dir.                                           *)
(*   SpecRemote : importer/remote.py, RemoteRepo -- the repository is      *)
(*                entered (server check, mount) and left (unmount).        *)
(***************************************************************************)
EXTENDS Integers, Sequences, FiniteSets, TLC

(***************************************************************************)
(* Bounds of the model.                                                    *)
(***************************************************************************)
\* number of directories below the search root
MaxDirs == 3
\* modification times are whole seconds 0..MaxSec
MaxSec == 1
\* the requested number of matches ranges over 1..MaxN (and the default)
MaxN == 3
\* clock ticks per second: the target date need not be a whole second
TicksPerSec == 2

\* find_date_dir(date, root, n = 10)
DefaultN == 10

VARIABLES
    \* ---- the directory tree searched by find_date_dir
    dirs,       \* the directories: 0 is the search root
    parent,     \* parent[d] for every d in dirs \ {0}
    mtime,      \* os.stat(d).st_mtime, in ticks
    date,       \* the target date, in ticks
    n,          \* the requested number of matches
    \* ---- the local state of find_date_dir
    found,      \* the candidate list: records [path, score]
    walk,       \* directories os.walk has still to yield, next one first
    scored,     \* the directories datescore_dir has been called on
    visited,    \* the directories os.walk has yielded, in order
    thresh,     \* max_found of every visited directory, as line 172 set it
    spc,        \* "walk" while in the loop, "done" after the return
    result,     \* the returned list of paths
    calls,      \* the calls of find_date_dir that have returned before this one
    first       \* what the first call returned

svars == <<dirs, parent, mtime, date, n, found, walk, scored, visited, thresh, spc, result,
          calls, first>>

VARIABLES
    \* ---- the FileProcessor and the filesystem it works on
    cfg,        \* the fields set by FileProcessor.__init__
    fs,         \* the filesystem: absolute path -> node
    fs0,        \* the filesystem when the run started
    scanrev,    \* os.scandir lists names in descending instead of ascending order
    zip,        \* the entries of the archive file at FileProcessor.dst
    zip0,       \* the entries of that archive when the run started
    zopen,      \* TRUE while the ZipFile is open for writing
    \* ---- the local state of FileProcessor.copy / FileProcessor.archive
    stack,      \* directories os.walk has still to yield, next one first
    curr,       \* the directory the loop body is working on
    fns,        \* the files of curr that are still to be processed
    step,       \* "cb" before the callback of Head(fns), "put" after it
    seen,       \* the directories os.walk has yielded, in order
    cblog,      \* the descriptions the callback was called with, in order
    putlog,     \* the files copy2 or z.write has finished, in order
    made,       \* what the copy run has created or written below the destination, in order
    total,      \* what count_files has returned, NoRet before it is called
    symret,     \* how _symlink ended: "" not called, "None", "17", "raise"
    pc,         \* "count", "start", "walk", "done"
    ret,        \* the returned status, NoRet while running or after a raise
    exc         \* the exception that left the run, "" if none

rvars == <<cfg, fs, fs0, scanrev, zip, zip0, zopen, stack, curr, fns, step, seen, cblog, putlog, made,
          total, symret, pc, ret, exc>>

VARIABLES
    \* ---- a single call of one of the functions of the package
    call,       \* the function called and its arguments
    out,        \* what the call returned
    ppc         \* "call" before the call, "done" after it

pvars == <<call, out, ppc>>

vars == <<svars, rvars, pvars>>

\* the value of ret while no status has been returned
NoRet == -1

\* the FileProcessor does not exist while find_date_dir is studied
ReplIdle ==
    /\ cfg = <<>> /\ fs = <<>> /\ fs0 = <<>> /\ scanrev = FALSE /\ zip = <<>> /\ zip0 = <<>>
    /\ zopen = FALSE /\ stack = <<>> /\ curr = <<>> /\ fns = <<>>
    /\ step = "" /\ seen = <<>> /\ cblog = <<>> /\ putlog = <<>> /\ made = <<>> /\ total = NoRet /\ symret = "" /\ pc = "idle" /\ ret = NoRet /\ exc = ""

\* no single function is called while a whole run is studied
PureIdle == call = <<>> /\ out = <<>> /\ ppc = "idle"

\* no search runs while the FileProcessor is studied
SearchIdle ==
    /\ dirs = {} /\ parent = <<>> /\ mtime = <<>> /\ date = 0 /\ n = 0
    /\ found = <<>> /\ walk = <<>> /\ scored = {} /\ visited = <<>> /\ thresh = <<>>
    /\ spc = "idle" /\ result = <<>> /\ calls = 0 /\ first = <<>>

(***************************************************************************)
(* Generic helpers.                                                        *)
(***************************************************************************)
Abs(x) == IF x < 0 THEN -x ELSE x

Min(a, b) == IF a <= b THEN a ELSE b

Range(s) == {s[i] : i \in 1..Len(s)}

\* the elements of a finite set of integers as an ascending sequence
RECURSIVE SetToSeq(_)
SetToSeq(S) ==
    IF S = {} THEN <<>>
    ELSE LET x == CHOOSE y \in S : \A z \in S : y <= z
         IN  <<x>> \o SetToSeq(S \ {x})

(***************************************************************************)
(* inputdir.py                                                             *)
(***************************************************************************)

\* int(delta.total_seconds()): truncation towards zero
IntSeconds(delta) ==
    IF delta >= 0 THEN delta \div TicksPerSec ELSE -((-delta) \div TicksPerSec)

\* a score that keeps the sign of the difference
datescore_dir_signed(dir, target) == IntSeconds(mtime[dir] - target)

\* abs(int((mtime - target).total_seconds()))
datescore_dir(dir, target) == Abs(IntSeconds(mtime[dir] - target))

\* the sub-directories os.walk lists for top, in directory order
subdns(top) == SetToSeq({d \in dirs \ {0} : parent[d] = top})

\* a sort step that puts x in front of the elements of equal score
RECURSIVE InsertByScoreUnstable(_, _)
InsertByScoreUnstable(s, x) ==
    IF s = <<>> THEN <<x>>
    ELSE IF x.score <= Head(s).score THEN <<x>> \o s
         ELSE <<Head(s)>> \o InsertByScoreUnstable(Tail(s), x)

\* one step of list.sort(key = score): x goes behind every element whose
\* score is not greater, which keeps equal scores in their input order
RECURSIVE InsertByScore(_, _)
InsertByScore(s, x) ==
    IF s = <<>> THEN <<x>>
    ELSE IF x.score < Head(s).score THEN <<x>> \o s
         ELSE <<Head(s)>> \o InsertByScore(Tail(s), x)

\* list.sort(key=lambda x: x[2]): a stable sort by ascending score
RECURSIVE SortByScore(_)
SortByScore(s) ==
    IF s = <<>> THEN <<>>
    ELSE InsertByScore(SortByScore(SubSeq(s, 1, Len(s) - 1)), s[Len(s)])

\* found[:min(len(found), n)] with one element too many
TruncateOneMore(f, k) == SubSeq(f, 1, Min(Len(f), k + 1))

\* found[:min(len(found), n)]
Truncate(f, k) == SubSeq(f, 1, Min(Len(f), k))

\* if len(found) == 0: found.append((curr, Path(curr), datescore_dir(curr, date)))
Seed(f, top) ==
    IF Len(f) = 0
    THEN <<[path |-> top, score |-> datescore_dir(top, date)]>>
    ELSE f

\* subdss = [(d, p, datescore_dir(p, date)) for d, p in subdps]; subdss.sort(...)
subdss(top) ==
    LET ds == subdns(top)
    IN  SortByScore([i \in 1..Len(ds) |->
                        [path |-> ds[i], score |-> datescore_dir(ds[i], date)]])

\* found + subdss, sorted and cut to the n best
Merge(f, top) == Truncate(SortByScore(Seed(f, top) \o subdss(top)), n)

\* max_found = found[-1][2]
max_found(f) == f[Len(f)].score

\* a pruning that also drops the sub-directories that score max_found
DescendBelow(f, top) ==
    LET keep == SelectSeq(subdss(top), LAMBDA x : x.score < max_found(f))
    IN  [i \in 1..Len(keep) |-> keep[i].path]

\* the sub-directories that stay in dirnames, so that os.walk descends into them
Descend(f, top) ==
    LET keep == SelectSeq(subdss(top), LAMBDA x : x.score <= max_found(f))
    IN  [i \in 1..Len(keep) |-> keep[i].path]

\* one iteration of "for curr, subdns, _ in os.walk(root)"
Visit ==
    /\ spc = "walk"
    /\ walk # <<>>
    /\ LET top == Head(walk)
           f == Merge(found, top)
       IN  /\ found' = f
           /\ walk' = Descend(f, top) \o Tail(walk)
           /\ scored' = scored \cup (IF Len(found) = 0 THEN {top} ELSE {})
                               \cup Range(subdns(top))
           /\ visited' = Append(visited, top)
           /\ thresh' = [d \in DOMAIN thresh \cup {top} |->
                            IF d = top THEN max_found(f) ELSE thresh[d]]
    /\ UNCHANGED <<dirs, parent, mtime, date, n, spc, result, calls, first, rvars, pvars>>

\* found = [x[1] for x in found]; return found
Return ==
    /\ spc = "walk"
    /\ walk = <<>>
    /\ result' = [i \in 1..Len(found) |-> found[i].path]
    /\ spc' = "done"
    /\ UNCHANGED <<dirs, parent, mtime, date, n, found, walk, scored, visited, thresh,
                   calls, first, rvars, pvars>>

\* a found that outlives the call, as a list kept outside the function would
KeptFound(old) == old

\* found = []: every call starts with a list of its own
NewFound(old) == <<>>

\* find_date_dir is called once more with the same arguments, the
\* directories and their modification times being what they were
Again ==
    /\ spc = "done"
    /\ calls = 0
    /\ calls' = 1
    /\ first' = result
    /\ found' = NewFound(found)
    /\ walk' = <<0>>
    /\ scored' = {}
    /\ visited' = <<>>
    /\ thresh' = <<>>
    /\ result' = <<>>
    /\ spc' = "walk"
    /\ UNCHANGED <<dirs, parent, mtime, date, n, rvars, pvars>>

\* d and the directories above it in tree p
RECURSIVE UpFrom(_, _)
UpFrom(p, d) == IF d = 0 THEN {0} ELSE {d} \cup UpFrom(p, p[d])

\* the trees with k directories below the root, the directories numbered in
\* the order a full walk lists them: each hangs under the one numbered
\* before it or under a directory above that one
Trees(k) ==
    {p \in [1..k -> 0..k] :
        \A d \in 1..k : p[d] < d /\ (d > 1 => p[d] \in UpFrom(p, d - 1))}

InitSearch ==
    /\ \E k \in 0..MaxDirs :
          /\ dirs = 0..k
          /\ parent \in Trees(k)
          /\ mtime \in [0..k -> {s * TicksPerSec : s \in 0..MaxSec}]
    /\ date \in 0..(MaxSec * TicksPerSec)
    /\ n \in (1..MaxN) \cup {DefaultN}
    /\ found = NewFound(<<>>)
    /\ walk = <<0>>
    /\ scored = {}
    /\ visited = <<>>
    /\ thresh = <<>>
    /\ spc = "walk"
    /\ result = <<>>
    /\ calls = 0
    /\ first = <<>>
    /\ ReplIdle
    /\ PureIdle

NextSearch == Visit \/ Return \/ Again

SpecSearch == InitSearch /\ [][NextSearch]_vars

(***************************************************************************)
(* Properties of find_date_dir.                                            *)
(***************************************************************************)
IsSorted(f) == \A i \in 1..Len(f) : \A j \in i..Len(f) : f[i].score <= f[j].score

\* the scored directories that are strictly closer to the date than the root
CloserThanRoot ==
    {d \in scored : datescore_dir(d, date) < datescore_dir(0, date)}

\* C1 (as stated): the returned sequence always contains the search root.
C1_RootAlwaysReturned == spc = "done" => 0 \in Range(result)

\* C1 (amended): the returned sequence is never empty, and it contains the
\* search root exactly when fewer than n of the scored directories are
\* strictly closer to the date than the root is.
C1_RootReturnedUnlessBeaten ==
    spc = "done" =>
        /\ result # <<>>
        /\ (0 \in Range(result)) <=> (Cardinality(CloserThanRoot) < n)

\* C1 witness: a finished search that dropped the root because n scored
\* directories were strictly closer to the date.
C1_Witness ==
    /\ spc = "done"
    /\ 0 \notin Range(result)
    /\ Cardinality(CloserThanRoot) >= n

\* C2: after the merge step of every visited directory the candidate list
\* is sorted by non-decreasing score and holds between 1 and n entries; the
\* returned sequence is non-empty, has at most n entries and is best first.
C2_SortedAndBounded ==
    /\ visited # <<>> =>
          /\ IsSorted(found)
          /\ Len(found) >= 1
          /\ Len(found) <= n
    /\ spc = "done" =>
          /\ Len(result) >= 1
          /\ Len(result) <= n
          /\ \A i \in 1..Len(result) : \A j \in i..Len(result) :
                datescore_dir(result[i], date) <= datescore_dir(result[j], date)

\* C2 witness: a finished search whose merge had to drop candidates.
C2_Witness ==
    /\ spc = "done"
    /\ Len(result) = n
    /\ Cardinality(scored) > n
    /\ \E i \in 1..Len(result) : datescore_dir(result[i], date)
                                    < datescore_dir(result[Len(result)], date)

\* the directories strictly below d
RECURSIVE Below(_)
Below(d) ==
    LET kids == {c \in dirs \ {0} : parent[c] = d}
    IN  kids \cup UNION {Below(c) : c \in kids}

\* C11: a sub-directory is yielded by the walk (its children get scored)
\* exactly when its parent was yielded and its score is at most the
\* threshold of its parent, the score of the last candidate retained after
\* the parent's merge; the scored directories are the root and the children
\* of the yielded ones, so nothing below a pruned directory is scored or
\* returned; and the walk ends only when no retained directory is left,
\* however many candidates have been collected.
C11_DescendIffWithinThreshold ==
    /\ \A d \in Range(visited) \ {0} :
          /\ parent[d] \in Range(visited)
          /\ datescore_dir(d, date) <= thresh[parent[d]]
    /\ visited # <<>> =>
          scored = {0} \cup {d \in dirs \ {0} : parent[d] \in Range(visited)}
    /\ \A d \in dirs \ {0} :
          (parent[d] \in Range(visited) /\ datescore_dir(d, date) > thresh[parent[d]]) =>
              /\ d \notin Range(visited) \cup Range(walk)
              /\ Below(d) \cap (scored \cup Range(result)) = {}
    /\ spc = "done" =>
          /\ \A d \in dirs \ {0} :
                d \in Range(visited) <=>
                    /\ parent[d] \in Range(visited)
                    /\ datescore_dir(d, date) <= thresh[parent[d]]
          /\ Range(result) \subseteq scored

\* C11 witness: a finished search that had its n candidates after the root,
\* went on into a sub-directory all the same, and pruned another
\* sub-directory whose child was never scored.
C11_Witness ==
    /\ spc = "done"
    /\ Len(visited) > 1
    /\ n <= Cardinality({d \in dirs \ {0} : parent[d] = 0})
    /\ \E d \in dirs \ {0} :
          /\ parent[d] \in Range(visited)
          /\ datescore_dir(d, date) > thresh[parent[d]]
          /\ Below(d) # {}

SLASH == <<"/">>

\* the last index of c in name, 0 if there is none: str.rfind + 1
RECURSIVE RFind(_, _)
RFind(name, c) ==
    IF name = <<>> THEN 0
    ELSE IF name[Len(name)] = c THEN Len(name)
         ELSE RFind(SubSeq(name, 1, Len(name) - 1), c)

\* PurePath.suffix of a name: from the last dot, unless the dot is the
\* first or the last character
Suffix(name) ==
    LET i == RFind(name, ".")
    IN  IF 1 < i /\ i < Len(name) THEN SubSeq(name, i, Len(name)) ELSE <<>>

\* PurePath.name
PathName(p) == p[Len(p)]

\* PurePath.parent
PathParent(p) == SubSeq(p, 1, Len(p) - 1)

\* PurePath.with_suffix(sfx): the old suffix of the name is cut off and sfx
\* is appended
with_suffix(p, sfx) ==
    LET name == PathName(p)
        stem == SubSeq(name, 1, Len(name) - Len(Suffix(name)))
    IN  Append(PathParent(p), stem \o sfx)

\* p is root or lies beneath it
IsUnder(p, root) == Len(root) <= Len(p) /\ SubSeq(p, 1, Len(root)) = root

\* what stands for a ValueError where a path is expected
ValueError == <<<<"V", "a", "l", "u", "e", "E", "r", "r", "o", "r">>>>

\* PurePath.relative_to(root): the parts of p behind root; the method raises
\* ValueError for a path that is neither root nor beneath it
relative_to(p, root) ==
    IF IsUnder(p, root) THEN SubSeq(p, Len(root) + 1, Len(p)) ELSE ValueError

\* PurePath.joinpath(rel) for a relative path rel
joinpath(p, rel) == p \o rel

\* the Python value None, where a path is optional
None == <<<<"N", "o", "n", "e">>>>

\* the working directory of the process
CWD == <<SLASH, <<"m">>>>

\* Path.resolve, part by part: done is resolved, rest is still to come; a
\* part that is a symlink is replaced by its target, which is resolved in
\* turn (the targets of the model are absolute)
RECURSIVE ResolveFrom(_, _, _)
ResolveFrom(f, done, rest) ==
    IF rest = <<>> THEN done
    ELSE LET q == Append(done, Head(rest))
         IN  IF q \in DOMAIN f /\ f[q].kind = "link"
             THEN ResolveFrom(f, <<SLASH>>, Tail(f[q].target) \o Tail(rest))
             ELSE ResolveFrom(f, q, Tail(rest))

\* Path.resolve() on filesystem f: the path is made absolute and its
\* symlinks are followed
resolve(f, p) ==
    LET abs == IF p # <<>> /\ Head(p) = SLASH THEN p ELSE CWD \o p
    IN  ResolveFrom(f, <<SLASH>>, Tail(abs))

\* a transplant_path that forgets the directories between root and name
transplant_path_flat(src_path, src_root, dst_root) ==
    LET relp == relative_to(src_path, resolve(fs, src_root))
        flat == IF relp = <<>> THEN <<>> ELSE <<PathName(relp)>>
    IN  IF relp = ValueError THEN ValueError
        ELSE IF dst_root = None THEN flat
        ELSE joinpath(resolve(fs, dst_root), flat)

\* transplant_path(src, src_root, dst_root) on the filesystem as it is
transplant_path(src_path, src_root, dst_root) ==
    LET relp == relative_to(src_path, resolve(fs, src_root))
    IN  IF relp = ValueError THEN ValueError
        ELSE IF dst_root = None THEN relp
        ELSE joinpath(resolve(fs, dst_root), relp)

\* fnmatch: does the whole name match the glob pattern ("*" and "?" are
\* the wildcards of the model, every other character stands for itself)
RECURSIVE fnmatch(_, _)
fnmatch(name, patt) ==
    IF patt = <<>> THEN name = <<>>
    ELSE IF Head(patt) = "*"
         THEN \/ fnmatch(name, Tail(patt))
              \/ name # <<>> /\ fnmatch(Tail(name), patt)
         ELSE /\ name # <<>>
              /\ Head(patt) = "?" \/ Head(patt) = Head(name)
              /\ fnmatch(Tail(name), Tail(patt))

\* a filter that only applies the first pattern
remove_ignored_first(names, patterns) ==
    SelectSeq(names, LAMBDA x :
        patterns = <<>> \/ ~fnmatch(x, patterns[1]))

\* FileProcessor._remove_ignored: the names that match none of the patterns,
\* in their order
remove_ignored(names, patterns) ==
    LET ignor == {x \in Range(names) :
                    \E i \in 1..Len(patterns) : fnmatch(x, patterns[i])}
    IN  SelectSeq(names, LAMBDA x : x \notin ignor)

(***************************************************************************)
(* The filesystem: a function from the absolute paths that exist to nodes  *)
(* [kind, data, meta, target].  data stands for the bytes of a file and    *)
(* meta for what os.stat reports (times, permissions); both are written    *)
(* as the path the bytes or the metadata first belonged to.                *)
(***************************************************************************)
DirNode(meta) == [kind |-> "dir", data |-> <<>>, meta |-> meta, target |-> <<>>]

FileNode(data, meta) == [kind |-> "file", data |-> data, meta |-> meta, target |-> <<>>]

LinkNode(target) == [kind |-> "link", data |-> <<>>, meta |-> <<>>, target |-> target]

\* the metadata of what this run creates, before any copystat
NewMeta == <<<<"n", "e", "w">>>>

\* the bytes of a zip archive
ZipData == <<<<"z", "i", "p">>>>

\* os.path.lexists
lexists(f, p) == p \in DOMAIN f

\* Path.exists: a symlink is followed to its target
exists(f, p) ==
    /\ p \in DOMAIN f
    /\ f[p].kind = "link" => f[p].target \in DOMAIN f

\* Path.is_dir: a symlink is followed to its target
is_dir(f, p) ==
    /\ p \in DOMAIN f
    /\ \/ f[p].kind = "dir"
       \/ /\ f[p].kind = "link"
          /\ f[p].target \in DOMAIN f
          /\ f[f[p].target].kind = "dir"

Put(f, p, node) == [q \in DOMAIN f \cup {p} |-> IF q = p THEN node ELSE f[q]]

Remove(f, S) == [q \in DOMAIN f \ S |-> f[q]]

\* the names of the model; os.scandir lists names in this order, or in
\* the reverse order when scanrev is set
AllNames ==
    << <<"1">>, <<"2">>, <<"3">>, <<"a">>, <<"a", ".", "v">>,
       <<"a", ".", "z", "i", "p">>, <<"b">>, <<"c">>, <<"d", ".", "x">>,
       <<"i", ".", "x">>, <<"m">>, <<"o">>, <<"r">> >>

NameRank(name) == CHOOSE i \in 1..Len(AllNames) : AllNames[i] = name

RECURSIVE SortNames(_)
SortNames(S) ==
    IF S = {} THEN <<>>
    ELSE LET x == CHOOSE y \in S :
                    \A z \in S : IF scanrev THEN NameRank(y) >= NameRank(z)
                                            ELSE NameRank(y) <= NameRank(z)
         IN  <<x>> \o SortNames(S \ {x})

\* the names os.scandir(p) lists
Listing(f, p) == {PathName(q) : q \in {r \in DOMAIN f : Len(r) = Len(p) + 1 /\ IsUnder(r, p)}}

\* os.walk: the names of p that are directories (symlinks followed) ...
walk_dirs(f, p) == SortNames({x \in Listing(f, p) : is_dir(f, Append(p, x))})

\* ... and the other names
walk_nondirs(f, p) == SortNames({x \in Listing(f, p) : ~is_dir(f, Append(p, x))})

\* os.walk yields p: it can be scanned and, below the top, is no symlink
walk_yields(f, p) == p \in DOMAIN f /\ f[p].kind = "dir"

\* a Path.mkdir that takes any existing directory for granted
mkdir_error_lenient(f, p, exist_ok) ==
    IF lexists(f, p)
    THEN IF is_dir(f, p) THEN "" ELSE "FileExistsError"
    ELSE ""

\* Path.mkdir(exist_ok): the exception it raises, "" if none
mkdir_error(f, p, exist_ok) ==
    IF lexists(f, p)
    THEN IF exist_ok /\ is_dir(f, p) THEN "" ELSE "FileExistsError"
    ELSE IF ~lexists(f, PathParent(p)) THEN "FileNotFoundError"
         ELSE IF ~is_dir(f, PathParent(p)) THEN "NotADirectoryError"
              ELSE ""

\* Path.mkdir(exist_ok) that has not raised
mkdir(f, p) == IF lexists(f, p) THEN f ELSE Put(f, p, DirNode(NewMeta))

\* shutil.copystat(src, dst)
copystat(f, src, dst) == Put(f, dst, [f[dst] EXCEPT !.meta = f[src].meta])

\* shutil.copy2(src, dst): the file it writes (dst itself, or dst/name
\* when dst is a directory)
copy2_target(f, src, dst) ==
    IF is_dir(f, dst) THEN Append(dst, PathName(src)) ELSE dst

\* shutil.copy2(src, dst): the exception it raises, "" if none
copy2_error(f, src, dst) ==
    LET t == copy2_target(f, src, dst)
    IN  IF t = src THEN "SameFileError"
        ELSE IF is_dir(f, t) THEN "IsADirectoryError"
        ELSE ""

\* shutil.copy2(src, dst) that has not raised: bytes and metadata
copy2(f, src, dst) ==
    Put(f, copy2_target(f, src, dst), FileNode(f[src].data, f[src].meta))

\* shutil.rmtree(p) of a directory
rmtree(f, p) == Remove(f, {q \in DOMAIN f : IsUnder(q, p)})

(***************************************************************************)
(* fileproc.py: FileProcessor.                                             *)
(***************************************************************************)
ZipSuffix == <<".", "z", "i", "p">>

\* FileProcessor.src
src == cfg.indir

\* FileProcessor.dst
dst ==
    LET dst_root == Append(cfg.repopath, PathName(cfg.indir))
    IN  IF cfg.compress THEN with_suffix(dst_root, ZipSuffix) ELSE dst_root

\* FileProcessor.link_path
link_path ==
    IF cfg.outpath # cfg.repopath
    THEN Append(cfg.outpath, PathName(cfg.indir))
    ELSE None

\* FileProcessor._symlink on filesystem f: the filesystem it leaves, the
\* value it returns (NoRet for None) and the exception it raises
symlink(f) ==
    LET link_dst == link_path
        linked(g) == IF lexists(g, link_dst)
                     THEN [fs |-> g, ret |-> NoRet, exc |-> "FileExistsError"]
                     ELSE [fs |-> Put(g, link_dst, LinkNode(dst)), ret |-> NoRet, exc |-> ""]
    IN  IF link_dst = None THEN [fs |-> f, ret |-> NoRet, exc |-> ""]
        ELSE IF exists(f, link_dst)
             THEN IF cfg.force
                  THEN IF f[link_dst].kind = "dir"
                       THEN [fs |-> f, ret |-> NoRet, exc |-> "IsADirectoryError"]
                       ELSE linked(Remove(f, {link_dst}))
                  ELSE [fs |-> f, ret |-> 17, exc |-> ""]
             ELSE linked(f)

\* how a call of _symlink ended, for the record
SymlinkEnd(r) == IF r.exc # "" THEN "raise" ELSE IF r.ret = 17 THEN "17" ELSE "None"

\* what the callers of _symlink do with its return value: copy and archive
\* drop it and return 0
status_after_symlink(r) == 0

\* the children of directory c named by names, as paths
Children(c, names) == [i \in 1..Len(names) |-> Append(c, names[i])]

\* a description handed to the callback: f"Copying {f_disp}"
Description(verb, rel) == [verb |-> verb, path |-> rel]

\* an entry of the archive
DirEntry(arcname) == [arcname |-> arcname, isdir |-> TRUE, data |-> <<>>]

FileEntry(arcname, data) == [arcname |-> arcname, isdir |-> FALSE, data |-> data]

\* a directory the copy run has created or found, a file it has written
MadeDir(p) == [path |-> p, kind |-> "dir"]

MadeFile(p) == [path |-> p, kind |-> "file"]

\* what a progress callback may do: return, or raise
CallbackOutcomes == {"", "CallbackError"}

\* what adding an entry to the archive may do: succeed, or fail
WriteOutcomes == {"", "OSError"}

\* the run ends by returning status
Returns(status) ==
    /\ ret' = status
    /\ exc' = ""
    /\ pc' = "done"

\* the run ends by raising exception e
Raises(e) ==
    /\ ret' = NoRet
    /\ exc' = e
    /\ pc' = "done"

RECURSIVE CountWalk(_, _, _)
\* FileProcessor.count_files, lines 82-86: os.walk over the directories of
\* stk and what is below them, the names filtered by patterns; the number
\* of file names that are left
CountWalk(f, stk, patterns) ==
    IF stk = <<>> THEN 0
    ELSE LET c == Head(stk)
             dns == remove_ignored(walk_dirs(f, c), patterns)
             files == remove_ignored(walk_nondirs(f, c), patterns)
         IN  IF ~walk_yields(f, c)
             THEN CountWalk(f, Tail(stk), patterns)
             ELSE Len(files) + CountWalk(f, Children(c, dns) \o Tail(stk), patterns)

\* every file of the tree is counted, ignored or not
count_files_unfiltered(f) == CountWalk(f, <<src>>, <<>>)

\* FileProcessor.count_files on filesystem f
count_files(f) == CountWalk(f, <<src>>, cfg.ignore_patterns)

\* the files that will be processed are counted before the run
CountFiles ==
    /\ pc = "count"
    /\ total' = count_files(fs)
    /\ pc' = "start"
    /\ UNCHANGED <<cfg, scanrev, fs, fs0, zip, zip0, zopen, stack, curr, fns, step, seen, cblog, putlog, made, symret, ret, exc, svars, pvars>>

\* FileProcessor.copy, lines 131-138: create the destination root
CopyBegin ==
    /\ pc = "start"
    /\ ~cfg.compress
    /\ LET err == mkdir_error(fs, dst, cfg.force)
       IN  IF err = "FileExistsError"
           THEN /\ Returns(17)
                /\ UNCHANGED <<fs, stack, made>>
           ELSE IF err # ""
           THEN /\ Raises(err)
                /\ UNCHANGED <<fs, stack, made>>
           ELSE /\ fs' = mkdir(fs, dst)
                /\ made' = <<MadeDir(dst)>>
                /\ stack' = <<src>>
                /\ pc' = "walk"
                /\ UNCHANGED <<ret, exc>>
    /\ UNCHANGED <<cfg, total, scanrev, fs0, zip, zip0, zopen, curr, fns, step, seen, cblog, putlog, symret, svars, pvars>>

\* FileProcessor.copy, lines 140-155: os.walk yields the next directory; its
\* counterpart is created, gets the metadata, and the names are filtered
CopyVisit ==
    /\ pc = "walk"
    /\ ~cfg.compress
    /\ fns = <<>>
    /\ stack # <<>>
    /\ LET c == Head(stack)
           dns == walk_dirs(fs, c)
           files == walk_nondirs(fs, c)
           d == transplant_path(resolve(fs, c), src, dst)
           err == IF d # dst THEN mkdir_error(fs, d, cfg.force) ELSE ""
       IN  IF ~walk_yields(fs, c)
           THEN /\ stack' = Tail(stack)
                /\ UNCHANGED <<fs, curr, fns, step, seen, made, pc, ret, exc>>
           ELSE IF err = "FileExistsError"
           THEN /\ Returns(17)
                /\ seen' = Append(seen, c)
                /\ UNCHANGED <<fs, stack, curr, fns, step, made>>
           ELSE IF err # ""
           THEN /\ Raises(err)
                /\ seen' = Append(seen, c)
                /\ UNCHANGED <<fs, stack, curr, fns, step, made>>
           ELSE /\ fs' = copystat(mkdir(fs, d), c, d)
                /\ made' = IF d # dst THEN Append(made, MadeDir(d)) ELSE made
                /\ curr' = c
                /\ seen' = Append(seen, c)
                /\ stack' = Children(c, remove_ignored(dns, cfg.ignore_patterns))
                                \o Tail(stack)
                /\ fns' = remove_ignored(files, cfg.ignore_patterns)
                /\ step' = "cb"
                /\ UNCHANGED <<pc, ret, exc>>
    /\ UNCHANGED <<cfg, total, scanrev, fs0, zip, zip0, zopen, cblog, putlog, symret, svars, pvars>>

\* FileProcessor.copy, lines 157-162: the callback for the next file, which
\* returns or raises
CopyCallback ==
    /\ pc = "walk"
    /\ ~cfg.compress
    /\ fns # <<>>
    /\ step = "cb"
    /\ LET f_src_path == Append(curr, Head(fns))
           f_disp == relative_to(f_src_path, src)
       IN  cblog' = Append(cblog, Description("Copying", f_disp))
    /\ \E raised \in CallbackOutcomes :
          IF raised # ""
          THEN /\ Raises(raised)
               /\ UNCHANGED step
          ELSE /\ step' = "put"
               /\ UNCHANGED <<pc, ret, exc>>
    /\ UNCHANGED <<cfg, total, scanrev, fs, fs0, zip, zip0, zopen, stack, curr, fns, seen, putlog, made, symret, svars, pvars>>

\* FileProcessor.copy, line 163: shutil.copy2 of the file
CopyFile ==
    /\ pc = "walk"
    /\ ~cfg.compress
    /\ fns # <<>>
    /\ step = "put"
    /\ LET f_src_path == Append(curr, Head(fns))
           f_dst_path == transplant_path(f_src_path, src, dst)
           err == copy2_error(fs, f_src_path, f_dst_path)
       IN  IF err # ""
           THEN /\ Raises(err)
                /\ UNCHANGED <<fs, fns, step, putlog, made>>
           ELSE /\ fs' = copy2(fs, f_src_path, f_dst_path)
                /\ putlog' = Append(putlog, relative_to(f_src_path, src))
                /\ made' = Append(made, MadeFile(copy2_target(fs, f_src_path, f_dst_path)))
                /\ fns' = Tail(fns)
                /\ step' = "cb"
                /\ UNCHANGED <<pc, ret, exc>>
    /\ UNCHANGED <<cfg, total, scanrev, fs0, zip, zip0, zopen, stack, curr, seen, cblog, symret, svars, pvars>>

\* FileProcessor.copy, lines 165-167: the alias and the status
CopyFinish ==
    /\ pc = "walk"
    /\ ~cfg.compress
    /\ fns = <<>>
    /\ stack = <<>>
    /\ LET r == symlink(fs)
       IN  /\ fs' = r.fs
           /\ symret' = SymlinkEnd(r)
           /\ IF r.exc # "" THEN Raises(r.exc) ELSE Returns(status_after_symlink(r))
    /\ UNCHANGED <<cfg, total, scanrev, fs0, zip, zip0, zopen, stack, curr, fns, step, seen, cblog, putlog, made, svars, pvars>>

\* the archive writer is left open when the with block ends
zip_exit_leak(open) == open

\* FileProcessor.archive, line 196: however the with block ends,
\* ZipFile.__exit__ closes the writer
zip_exit(open) == FALSE

\* FileProcessor.archive, line 187: mode = "w" if self.force else "a"
zip_mode == IF cfg.force THEN "w" ELSE "a"

\* FileProcessor.archive, lines 175-194: the uncompressed namesake is
\* removed or refused, then the archive is opened
ArchiveBegin ==
    /\ pc = "start"
    /\ cfg.compress
    /\ LET basename == with_suffix(dst, <<>>)
           conflict == exists(fs, basename)
           fs1 == IF conflict /\ cfg.force /\ fs[basename].kind = "dir"
                  THEN rmtree(fs, basename)
                  ELSE fs
           keep == zip_mode = "a" /\ lexists(fs1, dst)
       IN  IF conflict /\ ~cfg.force
           THEN /\ Returns(17)
                /\ UNCHANGED <<fs, zip, zopen, stack>>
           ELSE IF conflict /\ fs[basename].kind # "dir"
           THEN \* shutil.rmtree of something that is no directory
                /\ Raises("NotADirectoryError")
                /\ UNCHANGED <<fs, zip, zopen, stack>>
           ELSE IF is_dir(fs1, dst)
           THEN \* ZipFile cannot open a directory
                /\ Raises("IsADirectoryError")
                /\ fs' = fs1
                /\ UNCHANGED <<zip, zopen, stack>>
           ELSE /\ fs' = IF keep THEN fs1 ELSE Put(fs1, dst, FileNode(ZipData, NewMeta))
                /\ zip' = IF keep THEN zip ELSE <<>>
                /\ zopen' = TRUE
                /\ stack' = <<src>>
                /\ pc' = "walk"
                /\ UNCHANGED <<ret, exc>>
    /\ UNCHANGED <<cfg, total, scanrev, fs0, zip0, curr, fns, step, seen, cblog, putlog, made, symret, svars, pvars>>

\* FileProcessor.archive, lines 197-206: os.walk yields the next directory;
\* it gets a directory entry, and the names are filtered
ArchiveVisit ==
    /\ pc = "walk"
    /\ cfg.compress
    /\ fns = <<>>
    /\ stack # <<>>
    /\ LET c == Head(stack)
           dns == walk_dirs(fs, c)
           files == walk_nondirs(fs, c)
           d == transplant_path(resolve(fs, c), src, None)
       IN  IF ~walk_yields(fs, c)
           THEN /\ stack' = Tail(stack)
                /\ UNCHANGED <<zip, zopen, curr, fns, step, seen, pc, ret, exc>>
           ELSE \E failed \in IF d # dst THEN WriteOutcomes ELSE {""} :
                IF failed # ""
                THEN /\ Raises(failed)
                     /\ zopen' = zip_exit(zopen)
                     /\ seen' = Append(seen, c)
                     /\ UNCHANGED <<zip, stack, curr, fns, step>>
                ELSE /\ zip' = IF d # dst THEN Append(zip, DirEntry(d)) ELSE zip
                     /\ curr' = c
                     /\ seen' = Append(seen, c)
                     /\ stack' = Children(c, remove_ignored(dns, cfg.ignore_patterns))
                                     \o Tail(stack)
                     /\ fns' = remove_ignored(files, cfg.ignore_patterns)
                     /\ step' = "cb"
                     /\ UNCHANGED <<zopen, pc, ret, exc>>
    /\ UNCHANGED <<cfg, total, scanrev, fs, fs0, zip0, cblog, putlog, made, symret, svars, pvars>>

\* FileProcessor.archive, lines 208-212: the callback for the next file,
\* which returns or raises
ArchiveCallback ==
    /\ pc = "walk"
    /\ cfg.compress
    /\ fns # <<>>
    /\ step = "cb"
    /\ LET f_src_path == Append(curr, Head(fns))
           f_dst_path == relative_to(f_src_path, src)
       IN  cblog' = Append(cblog, Description("Archiving", f_dst_path))
    /\ \E raised \in CallbackOutcomes :
          IF raised # ""
          THEN /\ Raises(raised)
               /\ zopen' = zip_exit(zopen)
               /\ UNCHANGED step
          ELSE /\ step' = "put"
               /\ UNCHANGED <<zopen, pc, ret, exc>>
    /\ UNCHANGED <<cfg, total, scanrev, fs, fs0, zip, zip0, stack, curr, fns, seen, putlog, made, symret, svars, pvars>>

\* FileProcessor.archive, line 213: z.write of the file, or its failure
ArchiveWrite ==
    /\ pc = "walk"
    /\ cfg.compress
    /\ fns # <<>>
    /\ step = "put"
    /\ LET f_src_path == Append(curr, Head(fns))
           f_dst_path == relative_to(f_src_path, src)
       IN  \E failed \in WriteOutcomes :
              IF failed # ""
              THEN /\ Raises(failed)
                   /\ zopen' = zip_exit(zopen)
                   /\ UNCHANGED <<zip, putlog, fns, step>>
              ELSE /\ zip' = Append(zip, FileEntry(f_dst_path, fs[f_src_path].data))
                   /\ putlog' = Append(putlog, f_dst_path)
                   /\ fns' = Tail(fns)
                   /\ step' = "cb"
                   /\ UNCHANGED <<zopen, pc, ret, exc>>
    /\ UNCHANGED <<cfg, total, scanrev, fs, fs0, zip0, stack, curr, seen, cblog, made, symret, svars, pvars>>

\* FileProcessor.archive, lines 196 and 215-217: the archive is closed, then
\* the alias and the status
ArchiveFinish ==
    /\ pc = "walk"
    /\ cfg.compress
    /\ fns = <<>>
    /\ stack = <<>>
    /\ zopen' = zip_exit(zopen)
    /\ LET r == symlink(fs)
       IN  /\ fs' = r.fs
           /\ symret' = SymlinkEnd(r)
           /\ IF r.exc # "" THEN Raises(r.exc) ELSE Returns(status_after_symlink(r))
    /\ UNCHANGED <<cfg, total, scanrev, fs0, zip, zip0, stack, curr, fns, step, seen, cblog, putlog, made, svars, pvars>>

(***************************************************************************)
(* The runs of the model: a source directory /m/<name> holding at most     *)
(* MaxEntries entries, a repository path outside the source (/r), the      *)
(* source itself or the parent of the source (/m), an output path that is  *)
(* the repository or /o, and what may already lie at the destination, at   *)
(* the archive, at its suffix-less namesake and at the alias.  Both        *)
(* directory orders are tried where the run writes into the tree it walks. *)
(* The callback may raise, and adding an entry to the archive may fail.    *)
(***************************************************************************)
MaxEntries == 3

ROOT == <<SLASH>>

M == <<SLASH, <<"m">>>>

R == <<SLASH, <<"r">>>>

O == <<SLASH, <<"o">>>>

\* the bytes and metadata of what lay at the destination before the run
Stale == <<<<"o", "l", "d">>>>

StaleEntry == FileEntry(Stale, Stale)

SrcNames == {<<"a">>, <<"a", ".", "v">>}

IgnorePatterns == {<<>>, <<<<"*", ".", "x">>>>, <<<<"c">>, <<"*", ".", "x">>>>}

\* what a source directory may hold, as root-relative paths
SrcUniverse ==
    { [rel |-> <<<<"1">>>>, kind |-> "file"],
      [rel |-> <<<<"i", ".", "x">>>>, kind |-> "file"],
      [rel |-> <<<<"b">>>>, kind |-> "dir"],
      [rel |-> <<<<"b">>, <<"2">>>>, kind |-> "file"],
      [rel |-> <<<<"b">>, <<"i", ".", "x">>>>, kind |-> "file"],
      [rel |-> <<<<"b">>, <<"c">>>>, kind |-> "dir"],
      [rel |-> <<<<"b">>, <<"c">>, <<"3">>>>, kind |-> "file"],
      [rel |-> <<<<"d", ".", "x">>>>, kind |-> "dir"],
      [rel |-> <<<<"d", ".", "x">>, <<"3">>>>, kind |-> "file"] }

SrcTrees ==
    {T \in SUBSET SrcUniverse :
        /\ Cardinality(T) <= MaxEntries
        /\ \A e \in T : Len(e.rel) > 1 =>
              [rel |-> PathParent(e.rel), kind |-> "dir"] \in T}

\* a set of <<path, node>> pairs with distinct paths, as a filesystem
AsFs(S) == [p \in {x[1] : x \in S} |-> (CHOOSE x \in S : x[1] = p)[2]]

\* filesystem f, and the nodes of g on the paths f does not have
Overlay(f, g) ==
    [p \in DOMAIN f \cup DOMAIN g |-> IF p \in DOMAIN f THEN f[p] ELSE g[p]]

\* the source tree T under indir, and the directories around it
SourceFs(indir, T) ==
    AsFs({<<p, DirNode(p)>> : p \in {ROOT, M, R, O, indir}}
         \cup {<<indir \o e.rel,
                 IF e.kind = "dir" THEN DirNode(indir \o e.rel)
                 ELSE FileNode(indir \o e.rel, indir \o e.rel)>> : e \in T})

\* what lies at path p before the run: nothing, a file, an empty directory,
\* a directory with stale entries, a directory holding a directory named as
\* a file of the source may be, or a symlink to target
PreNodes(p, kind, target) ==
    CASE kind = "none" -> {}
      [] kind = "file" -> {<<p, FileNode(Stale, Stale)>>}
      [] kind = "dir" -> {<<p, DirNode(Stale)>>}
      [] kind = "stale" -> {<<p, DirNode(Stale)>>,
                            <<Append(p, <<"1">>), FileNode(Stale, Stale)>>,
                            <<Append(p, <<"b">>), FileNode(Stale, Stale)>>}
      [] kind = "nest" -> {<<p, DirNode(Stale)>>,
                           <<Append(p, <<"1">>), DirNode(Stale)>>}
      [] kind = "link" -> {<<p, LinkNode(target)>>}

\* the nodes of kind at p are put on f, unless f has something at p
WithPre(f, p, kind, target) ==
    IF lexists(f, p) THEN f ELSE Overlay(f, AsFs(PreNodes(p, kind, target)))

\* what may lie at the destination before the run.  Copy: something at the
\* destination root.  Archive: an old archive, and something at the path of
\* the archive without its suffix
CopyPre == {[plain |-> k, archive |-> "none"] : k \in {"none", "file", "dir", "stale", "nest"}}

ArchivePre == {[plain |-> k, archive |-> z] : k \in {"none", "file", "stale"},
                                              z \in {"none", "file"}}

\* what may lie at the alias path before the run, the symlink being the one
\* an earlier copy run has made
AliasPre == {"none", "file", "dir", "link"}

Init ==
    /\ \E name \in SrcNames, T \in SrcTrees, compress \in BOOLEAN,
          force \in BOOLEAN, patterns \in IgnorePatterns,
          repo \in {"out", "in", "parent"}, aliased \in BOOLEAN :
       \E pre \in IF compress THEN ArchivePre ELSE CopyPre,
          prealias \in IF aliased THEN AliasPre ELSE {"none"},
          rev \in IF repo = "in" THEN BOOLEAN ELSE {FALSE} :
          LET indir == Append(M, name)
              repopath == CASE repo = "out" -> R
                            [] repo = "in" -> indir
                            [] repo = "parent" -> M
              outpath == IF aliased THEN O ELSE repopath
              plain == Append(repopath, name)
              archive == with_suffix(plain, ZipSuffix)
              basename == with_suffix(archive, <<>>)
              f0 == SourceFs(indir, T)
              f1 == IF compress
                    THEN WithPre(WithPre(f0, archive, pre.archive, <<>>),
                                 basename, pre.plain, <<>>)
                    ELSE WithPre(f0, plain, pre.plain, <<>>)
              f2 == WithPre(f1, Append(outpath, name), prealias, plain)
          IN  /\ cfg = [indir |-> indir, outpath |-> outpath, repopath |-> repopath,
                        compress |-> compress, force |-> force,
                        ignore_patterns |-> patterns]
              /\ fs = f2
              /\ fs0 = f2
              /\ scanrev = rev
              /\ zip = IF compress /\ lexists(f2, archive) THEN <<StaleEntry>> ELSE <<>>
    /\ zip0 = zip
    /\ zopen = FALSE
    /\ stack = <<>>
    /\ curr = <<>>
    /\ fns = <<>>
    /\ step = ""
    /\ seen = <<>>
    /\ cblog = <<>>
    /\ putlog = <<>>
    /\ made = <<>>
    /\ total = NoRet
    /\ symret = ""
    /\ pc = "count"
    /\ ret = NoRet
    /\ exc = ""
    /\ SearchIdle
    /\ PureIdle

Next ==
    \/ CountFiles
    \/ CopyBegin
    \/ CopyVisit
    \/ CopyCallback
    \/ CopyFile
    \/ CopyFinish
    \/ ArchiveBegin
    \/ ArchiveVisit
    \/ ArchiveCallback
    \/ ArchiveWrite
    \/ ArchiveFinish

Spec == Init /\ [][Next]_vars

TypeOK ==
    /\ pc \in {"count", "start", "walk", "done"}
    /\ ret \in {NoRet, 0, 17}
    /\ pc = "done" <=> (ret # NoRet \/ exc # "")

(***************************************************************************)
(* Properties of FileProcessor.                                            *)
(***************************************************************************)
\* the name matches one of the configured ignore patterns
Ignored(name) ==
    \E i \in 1..Len(cfg.ignore_patterns) : fnmatch(name, cfg.ignore_patterns[i])

\* one of the paths is the other or lies beneath it
Overlap(p, q) == IsUnder(p, q) \/ IsUnder(q, p)

\* the files that lay below the source root when the run started
SrcFiles0 == {p \in DOMAIN fs0 : IsUnder(p, src) /\ p # src /\ fs0[p].kind = "file"}

\* the directories that lay below the source root when the run started
SrcDirs0 == {p \in DOMAIN fs0 : IsUnder(p, src) /\ p # src /\ fs0[p].kind = "dir"}

\* neither the name of p nor the name of a directory between the source
\* root and p matches an ignore pattern
Retained(p) == \A i \in (Len(src) + 1)..Len(p) : ~Ignored(p[i])

\* the files that lie below the destination root of a copy
DstFiles == {p \in DOMAIN fs : IsUnder(p, dst) /\ p # dst /\ fs[p].kind = "file"}

\* the archive path without its suffix
Basename == with_suffix(dst, <<>>)

\* the destination holds exactly the images of the retained source files
ExactCopy ==
    /\ DstFiles = {joinpath(dst, relative_to(p, src)) : p \in {q \in SrcFiles0 : Retained(q)}}
    /\ \A p \in SrcFiles0 : Retained(p) =>
          fs[joinpath(dst, relative_to(p, src))].data = fs0[p].data

\* C3: after a copy run that returns 0 and whose destination root did not
\* exist beforehand, the files under the destination root are exactly the
\* images of the retained source files.
C3_CopyExact ==
    (pc = "done" /\ ~cfg.compress /\ ret = 0 /\ ~lexists(fs0, dst)) => ExactCopy

\* C3 fails only where the walk meets its own output: the statement holds
\* of every run whose destination root does not lie inside the source tree.
C3_CopyExactOutsideSource ==
    (pc = "done" /\ ~cfg.compress /\ ret = 0 /\ ~lexists(fs0, dst)
        /\ ~Overlap(dst, src)) => ExactCopy

\* a run outside the source that has copied a file and has left out a file
\* whose own name is not ignored but which lies in an ignored directory
C3_Witness ==
    /\ pc = "done" /\ ~cfg.compress /\ ret = 0 /\ ~lexists(fs0, dst)
    /\ ~Overlap(dst, src)
    /\ DstFiles # {}
    /\ \E p \in SrcFiles0 : ~Ignored(PathName(p)) /\ ~Retained(p)

\* C4: a copy run whose destination root exists and that is not forced
\* never changes the filesystem, never calls the callback, and returns 17.
C4_ConflictLeavesAllUntouched ==
    (~cfg.compress /\ lexists(fs0, dst) /\ ~cfg.force) =>
        /\ fs = fs0
        /\ cblog = <<>>
        /\ symret = ""
        /\ pc = "done" => ret = 17

\* C4 witness: such a run has returned, with a directory full of older
\* entries at the destination and an alias configured.
C4_Witness ==
    /\ ~cfg.compress /\ ~cfg.force /\ pc = "done" /\ ret = 17
    /\ is_dir(fs0, dst)
    /\ link_path # None
    /\ SrcFiles0 # {}

\* C5: when the archive file already exists, a forced run leaves an archive
\* that holds only entries this run has written, and a run without force
\* fails and never touches the archive.
C5_StaleArchiveNeverAppended ==
    (cfg.compress /\ lexists(fs0, dst)) =>
        IF cfg.force
        THEN (pc = "done" /\ ret = 0) => StaleEntry \notin Range(zip)
        ELSE /\ zip = zip0
             /\ pc = "done" => ret # 0

\* C6: when the alias path exists and the run gets as far as the alias,
\* without force the run reports 17, with force the alias becomes a symlink
\* to the real destination and the run reports 0.
C6_AliasConflictReported ==
    (pc = "done" /\ symret # "" /\ link_path # None /\ lexists(fs0, link_path)) =>
        IF cfg.force
        THEN ret = 0 /\ fs[link_path] = LinkNode(dst)
        ELSE ret = 17

\* C7: after a run that returns 0, if the repository path differs from the
\* output path there is a symlink at outpath/<name> to repopath/<name>,
\* and if they are equal the run has made no symlink.
C7_AliasAfterSuccess ==
    (pc = "done" /\ ret = 0) =>
        IF cfg.repopath # cfg.outpath
        THEN /\ lexists(fs, Append(cfg.outpath, PathName(src)))
             /\ fs[Append(cfg.outpath, PathName(src))]
                    = LinkNode(Append(cfg.repopath, PathName(src)))
        ELSE \A p \in DOMAIN fs : fs[p].kind = "link" => (p \in DOMAIN fs0 /\ fs0[p] = fs[p])

\* the directory entries of the archive
ZipDirs == {zip[i].arcname : i \in {j \in 1..Len(zip) : zip[j].isdir}}

\* C8: in an archive run the directory entries are the root-relative paths
\* of the visited directories other than the source root, and the source
\* root has no entry.
C8_NoEntryForRoot ==
    (cfg.compress /\ zopen) =>
        /\ ZipDirs = {relative_to(c, src) : c \in Range(seen) \ {src}}
        /\ <<>> \notin ZipDirs

\* the file entries of the archive are the retained source files, once each
ExactArchive ==
    /\ \A i \in 1..Len(zip) : ~zip[i].isdir =>
          /\ joinpath(src, zip[i].arcname) \in SrcFiles0
          /\ Retained(joinpath(src, zip[i].arcname))
    /\ \A p \in SrcFiles0 : Retained(p) =>
          Cardinality({i \in 1..Len(zip) :
                          ~zip[i].isdir /\ zip[i].arcname = relative_to(p, src)}) = 1

\* C9: after an archive run that returns 0 and whose archive did not exist
\* beforehand, the file entries are exactly the root-relative paths of the
\* retained source files, once each.
C9_ArchiveExact ==
    (pc = "done" /\ cfg.compress /\ ret = 0 /\ ~lexists(fs0, dst)) => ExactArchive

\* C9 fails only where the run works on its own source: the statement holds
\* when neither the archive nor the path of the archive without its suffix
\* overlaps the source tree.
C9_ArchiveExactOutsideSource ==
    (pc = "done" /\ cfg.compress /\ ret = 0 /\ ~lexists(fs0, dst)
        /\ ~Overlap(dst, src) /\ ~Overlap(Basename, src)) => ExactArchive

\* a run away from its source that has archived a file of a sub-directory
\* and has left out a file of a sub-directory whose name is ignored
C9_Witness ==
    /\ pc = "done" /\ cfg.compress /\ ret = 0 /\ ~lexists(fs0, dst)
    /\ ~Overlap(dst, src) /\ ~Overlap(Basename, src)
    /\ \E i \in 1..Len(zip) : ~zip[i].isdir /\ Len(zip[i].arcname) > 1
    /\ \E p \in SrcFiles0 : Ignored(PathName(p)) /\ Len(p) > Len(src) + 1

\* without force, an archive run that finds the namesake does nothing at all
NamesakeRefused ==
    /\ fs = fs0
    /\ zip = zip0
    /\ ~zopen
    /\ cblog = <<>>
    /\ symret = ""
    /\ pc = "done" => ret = 17

\* with force, the namesake is gone once the archive is open, and the run
\* goes on to walk the source and, unless an entry or the callback fails, to
\* make the alias
NamesakeRemoved ==
    pc \notin {"count", "start"} =>
        /\ \A p \in DOMAIN fs : ~IsUnder(p, Basename)
        /\ lexists(fs, dst)
        /\ pc = "walk" => zopen
        /\ pc = "done" => /\ ret # 17
                          /\ symret # "" \/ exc \in {"OSError", "CallbackError"}

\* C10: when something exists at the path of the archive without its
\* suffix, a run without force returns 17 and does nothing, and a forced run
\* removes it before the archive is opened and proceeds.
C10_Namesake ==
    (cfg.compress /\ exists(fs0, Basename)) =>
        IF cfg.force THEN NamesakeRemoved ELSE NamesakeRefused

\* C10 fails only for a namesake that shutil.rmtree cannot remove: the
\* statement holds when what exists there is a directory.
C10_NamesakeDirectory ==
    (cfg.compress /\ is_dir(fs0, Basename)) =>
        IF cfg.force THEN NamesakeRemoved ELSE NamesakeRefused

\* a forced run that has removed a directory with entries and is writing
\* the archive
C10_Witness ==
    /\ cfg.compress /\ is_dir(fs0, Basename)
    /\ \E p \in DOMAIN fs0 : IsUnder(p, Basename) /\ p # Basename
    /\ cfg.force
    /\ pc = "walk" /\ zopen /\ zip # <<>>

\* the paths the callback was called with, in order
CbPaths == [i \in 1..Len(cblog) |-> cblog[i].path]

\* the root-relative paths of the source files that are retained
RetainedRel == {relative_to(p, src) : p \in {q \in SrcFiles0 : Retained(q)}}

\* every callback is followed by the copy or the write of its file before
\* the next callback, and no file is copied or written twice
OneAtATime ==
    /\ Len(putlog) <= Len(cblog)
    /\ Len(cblog) <= Len(putlog) + 1
    /\ \A i \in 1..Len(putlog) : putlog[i] = cblog[i].path
    /\ \A i \in 1..Len(cblog) :
          cblog[i].verb = IF cfg.compress THEN "Archiving" ELSE "Copying"
    /\ \A i \in 1..Len(cblog) : \A j \in 1..Len(cblog) :
          cblog[i].path = cblog[j].path => i = j

\* the paths of log are in the order of a pre-order walk: the files of a
\* directory come before the files below its sub-directories, and the files
\* below one directory come in one run
PreOrder(log) ==
    \A i \in 1..Len(log) : \A j \in i..Len(log) :
        /\ ~(/\ Len(log[j]) < Len(log[i])
             /\ IsUnder(PathParent(log[i]), PathParent(log[j])))
        /\ \A m \in 0..(Len(log[i]) - 1) :
              IsUnder(log[j], SubSeq(log[i], 1, m)) =>
                  \A k \in i..j : IsUnder(log[k], SubSeq(log[i], 1, m))

\* C13: the callback is called in pre-order, each call before the copy or
\* the write of its file and after that of the file before it, no file is
\* copied or written twice, and a run that returns 0 has called it once for
\* every retained file of the source and for nothing else.
C13_CallbackOncePerFile ==
    (cfg # <<>>) =>
        /\ OneAtATime
        /\ PreOrder(CbPaths)
        /\ (pc = "done" /\ ret = 0) =>
              /\ Range(CbPaths) = RetainedRel
              /\ putlog = CbPaths

\* C13 fails only where the run works on its own source: the statement
\* holds when neither the destination nor the path of the archive without
\* its suffix overlaps the source tree.
C13_CallbackOncePerFileOutsideSource ==
    (cfg # <<>> /\ ~Overlap(dst, src) /\ ~Overlap(Basename, src)) =>
        /\ OneAtATime
        /\ PreOrder(CbPaths)
        /\ (pc = "done" /\ ret = 0) =>
              /\ Range(CbPaths) = RetainedRel
              /\ putlog = CbPaths

\* the directories this run has created
NewDirs == {p \in DOMAIN fs \ DOMAIN fs0 : fs[p].kind = "dir"}

\* the walk has yielded only directories the source had when the run
\* started, and the run has created and copied no more than the source had
VisitsOnlySource ==
    /\ Range(seen) \subseteq SrcDirs0 \cup {src}
    /\ Cardinality(NewDirs) <= Cardinality(SrcDirs0) + 1
    /\ Len(putlog) <= Cardinality(SrcFiles0)

\* C17: a copy run, wherever its destination root lies, visits only
\* directories that were in the source tree when it started, creates no
\* more directories than the source had (and the destination root) and
\* copies no more files than the source had.
C17_CopyVisitsOnlySource == ~cfg.compress => VisitsOnlySource

\* C17 fails only for a destination root inside the source tree: the
\* statement holds for every other destination root.
C17_CopyVisitsOnlySourceOutside ==
    (~cfg.compress /\ ~Overlap(dst, src)) => VisitsOnlySource

\* the directories the copy run had created or found before its i-th step
MadeBefore(i) == {made[j].path : j \in {k \in 1..(i - 1) : made[k].kind = "dir"}}

\* the destination root comes first, and whatever is created or written
\* afterwards lies in a directory the run has created or found earlier
ParentFirst ==
    /\ made # <<>> => made[1] = MadeDir(dst)
    /\ \A i \in 2..Len(made) : PathParent(made[i].path) \in MadeBefore(i)

\* the counterpart of every directory the walk has entered is a directory
\* with the metadata of that directory
MetadataFirst ==
    \A i \in 1..Len(seen) :
        (i < Len(seen) \/ curr = seen[i]) =>
            LET d == transplant_path(resolve(fs, seen[i]), src, dst)
            IN  is_dir(fs, d) /\ fs[d].meta = fs[seen[i]].meta

\* nothing with an ignored name waits to be visited or copied, or has been
\* visited
FilteredFirst ==
    /\ \A i \in 1..Len(stack) : stack[i] = src \/ ~Ignored(PathName(stack[i]))
    /\ \A i \in 1..Len(seen) : seen[i] = src \/ ~Ignored(PathName(seen[i]))
    /\ \A i \in 1..Len(fns) : ~Ignored(fns[i])

\* C18: in a copy run the destination root is created or verified before
\* anything beneath it, whatever is created or written has a parent the run
\* has created or verified earlier, every directory has its counterpart and
\* its metadata before its children are processed, and only names that
\* passed the filter are visited or copied.
C18_ParentBeforeChild ==
    ~cfg.compress => ParentFirst /\ MetadataFirst /\ FilteredFirst

\* no directory of the destination bears the name a file of the source is
\* copied to
NoDirectoryForFile ==
    \A p \in SrcFiles0 : ~is_dir(fs0, joinpath(dst, relative_to(p, src)))

\* the ordering of a copy run that meets no directory where it writes a
\* file: copy2 writes to the path it is given, and that path lies in the
\* counterpart of the directory being visited
C18_ParentBeforeChildNoNamesake ==
    (~cfg.compress /\ NoDirectoryForFile) =>
        ParentFirst /\ MetadataFirst /\ FilteredFirst

\* C19: an archive run that has opened the archive writer has closed it
\* when it returns or raises, whether it completed, failed to add a
\* directory or file entry, or its callback raised, and every step that
\* changes the entries of the archive ends with the writer open.
C19_WriterClosedOnExit ==
    /\ [](pc = "done" => ~zopen)
    /\ [][zip' # zip => zopen']_vars

\* an archive run has written entries, then an entry or the callback has
\* failed, and the writer is closed
C19_Witness ==
    /\ cfg.compress
    /\ pc = "done"
    /\ exc \in {"OSError", "CallbackError"}
    /\ Len(zip) > Len(zip0)
    /\ ~zopen

\* the tree below the source root is as it was when the run started
SrcUnchanged ==
    \A p \in DOMAIN fs \cup DOMAIN fs0 :
        IsUnder(p, src) => p \in DOMAIN fs /\ p \in DOMAIN fs0 /\ fs[p] = fs0[p]

\* C20: a copy run or an archive run that returns 0 and has left the source
\* tree as it was has called the callback as many times as count_files
\* counted on that tree.
C20_CountMatchesCallbacks ==
    (pc = "done" /\ ret = 0 /\ SrcUnchanged) => Len(cblog) = total

\* a successful run over a tree with a file that is kept and a file that is
\* ignored
C20_Witness ==
    /\ pc = "done"
    /\ ret = 0
    /\ SrcUnchanged
    /\ total >= 1
    /\ total < Cardinality(SrcFiles0)
    /\ Len(cblog) = total

(***************************************************************************)
(* transplant_path called on its own: the roots may be relative or may     *)
(* lead through a symlink, and the path is taken below the root as it is   *)
(* written or below the root as it resolves.                               *)
(***************************************************************************)
\* the longest path below a root
MaxDepth == 2

\* the filesystem of the calls: /l is a symlink to /t and /k one to /r
LinkFs ==
    AsFs({<<p, DirNode(p)>> : p \in {ROOT, M, R, <<SLASH, <<"t">>>>, Append(M, <<"t">>)}}
         \cup {<<<<SLASH, <<"l">>>>, LinkNode(<<SLASH, <<"t">>>>)>>,
                <<<<SLASH, <<"k">>>>, LinkNode(R)>>})

\* the roots of the calls: two directories, two symlinks and a relative path
TransplantRoots ==
    {<<SLASH, <<"t">>>>, R, <<SLASH, <<"l">>>>, <<SLASH, <<"k">>>>, <<<<"t">>>>}

\* the paths of at most k parts
RECURSIVE RelPaths(_)
RelPaths(k) ==
    IF k = 0 THEN {<<>>}
    ELSE RelPaths(k - 1)
            \cup {Append(r, x) : r \in {q \in RelPaths(k - 1) : Len(q) = k - 1},
                                 x \in {<<"1">>, <<"b">>}}

InitTransplant ==
    /\ \E A \in TransplantRoots, B \in TransplantRoots, r \in RelPaths(MaxDepth) :
       \E p \in {A \o r, resolve(LinkFs, A) \o r} :
          call = [fn |-> "transplant_path", src |-> p, src_root |-> A, dst_root |-> B]
    /\ out = <<>>
    /\ ppc = "call"
    /\ cfg = <<>> /\ fs = LinkFs /\ fs0 = LinkFs /\ scanrev = FALSE /\ zip = <<>> /\ zip0 = <<>>
    /\ zopen = FALSE /\ stack = <<>> /\ curr = <<>> /\ fns = <<>>
    /\ step = "" /\ seen = <<>> /\ cblog = <<>> /\ putlog = <<>> /\ made = <<>> /\ total = NoRet /\ symret = ""
    /\ pc = "idle" /\ ret = NoRet /\ exc = ""
    /\ SearchIdle

\* the path is transplanted to the other root and back, and is transplanted
\* with no destination root
TransplantCall ==
    /\ ppc = "call"
    /\ call.fn = "transplant_path"
    /\ LET there == transplant_path(call.src, call.src_root, call.dst_root)
           back == IF there = ValueError THEN ValueError
                   ELSE transplant_path(there, call.dst_root, call.src_root)
           rel == transplant_path(call.src, call.src_root, None)
       IN  out' = [there |-> there, back |-> back, rel |-> rel]
    /\ ppc' = "done"
    /\ UNCHANGED <<call, svars, rvars>>

SpecTransplant == InitTransplant /\ [][TransplantCall]_vars

\* C14 (as stated): for a path that is root A or lies beneath it, the
\* transplant to root B and back gives the path again, the transplant with
\* no destination root gives the path relative to A, and that joined onto B
\* is the transplant to B.
C14_RoundTrip ==
    (ppc = "done" /\ call.fn = "transplant_path" /\ IsUnder(call.src, call.src_root)) =>
        /\ out.back = call.src
        /\ out.rel = relative_to(call.src, call.src_root)
        /\ out.there = joinpath(call.dst_root, out.rel)

\* C14 (amended): the same with both roots taken as Path.resolve() gives
\* them: for a path that is the resolved root A or lies beneath it.
C14_RoundTripResolved ==
    (ppc = "done" /\ call.fn = "transplant_path"
        /\ IsUnder(call.src, resolve(fs, call.src_root))) =>
        /\ out.back = call.src
        /\ out.rel = relative_to(call.src, resolve(fs, call.src_root))
        /\ out.there = joinpath(resolve(fs, call.dst_root), out.rel)

\* C14 witness: a path two directories below a root that is written through
\* a symlink has been transplanted to a root written as a relative path.
C14_Witness ==
    /\ ppc = "done" /\ call.fn = "transplant_path"
    /\ call.src_root = <<SLASH, <<"l">>>>
    /\ call.dst_root = <<<<"t">>>>
    /\ IsUnder(call.src, resolve(fs, call.src_root))
    /\ Len(out.rel) = 2
    /\ out.back = call.src

(***************************************************************************)
(* FileProcessor._remove_ignored called on its own.                        *)
(***************************************************************************)
\* the longest list of names
MaxNames == 3

\* the longest list of patterns
MaxPatterns == 2

\* the names that are filtered
FilterNames == {<<"1">>, <<"c">>, <<"i", ".", "x">>, <<"d", ".", "x">>}

\* the patterns they are filtered with
FilterPatterns == {<<"*", ".", "x">>, <<"c">>, <<"?">>, <<"*">>}

\* the lists of at most k elements of S
RECURSIVE Lists(_, _)
Lists(S, k) ==
    IF k = 0 THEN {<<>>}
    ELSE Lists(S, k - 1)
            \cup {Append(l, x) : l \in {q \in Lists(S, k - 1) : Len(q) = k - 1}, x \in S}

InitFilter ==
    /\ \E names \in Lists(FilterNames, MaxNames),
          patterns \in Lists(FilterPatterns, MaxPatterns) :
          call = [fn |-> "_remove_ignored", names |-> names, patterns |-> patterns]
    /\ out = <<>>
    /\ ppc = "call"
    /\ ReplIdle
    /\ SearchIdle

\* the names are filtered, and what is left is filtered again
FilterCall ==
    /\ ppc = "call"
    /\ call.fn = "_remove_ignored"
    /\ LET once == remove_ignored(call.names, call.patterns)
       IN  out' = [once |-> once, twice |-> remove_ignored(once, call.patterns)]
    /\ ppc' = "done"
    /\ UNCHANGED <<call, svars, rvars>>

SpecFilter == InitFilter /\ [][FilterCall]_vars

\* s is t with some elements left out
RECURSIVE IsSubSeq(_, _)
IsSubSeq(s, t) ==
    IF s = <<>> THEN TRUE
    ELSE IF t = <<>> THEN FALSE
    ELSE IF Head(s) = Head(t) THEN IsSubSeq(Tail(s), Tail(t))
    ELSE IsSubSeq(s, Tail(t))

\* how often x occurs in s
Count(s, x) == Cardinality({i \in 1..Len(s) : s[i] = x})

\* C15: filtering the result again changes nothing; the result holds only
\* names of the input, in their order; and it holds a name, as often as the
\* input does, exactly when the name matches no pattern.
C15_FilterIdempotentExact ==
    (ppc = "done" /\ call.fn = "_remove_ignored") =>
        /\ out.twice = out.once
        /\ IsSubSeq(out.once, call.names)
        /\ \A x \in FilterNames :
              Count(out.once, x) =
                  IF \E i \in 1..Len(call.patterns) : fnmatch(x, call.patterns[i])
                  THEN 0
                  ELSE Count(call.names, x)

\* C15 witness: a list that holds a name twice has lost a name to the
\* second pattern only, and has kept another name.
C15_Witness ==
    /\ ppc = "done" /\ call.fn = "_remove_ignored"
    /\ Len(call.patterns) = 2
    /\ \E x \in Range(call.names) :
          /\ ~fnmatch(x, call.patterns[1])
          /\ fnmatch(x, call.patterns[2])
    /\ \E x \in FilterNames : Count(call.names, x) = 2
    /\ out.once # <<>>
    /\ Len(out.once) < Len(call.names)

(***************************************************************************)
(* datescore_dir called on its own: directory 0 has the modification time  *)
(* T and is scored against the date X, directory 1 has the modification    *)
(* time X and is scored against the date T.                                *)
(***************************************************************************)
\* modification times and dates range over 0..MaxScoreSec seconds
MaxScoreSec == 5

InitScore ==
    /\ \E T \in 0..(MaxScoreSec * TicksPerSec), X \in 0..(MaxScoreSec * TicksPerSec) :
          /\ mtime = <<X>> @@ (0 :> T)
          /\ call = [fn |-> "datescore_dir", T |-> T, X |-> X]
    /\ dirs = {0, 1} /\ parent = <<0>> /\ date = call.X /\ n = 0
    /\ found = <<>> /\ walk = <<>> /\ scored = {} /\ visited = <<>> /\ thresh = <<>>
    /\ spc = "idle" /\ result = <<>> /\ calls = 0 /\ first = <<>>
    /\ out = <<>>
    /\ ppc = "call"
    /\ ReplIdle

\* the directory is scored against the date, and the two are swapped
ScoreCall ==
    /\ ppc = "call"
    /\ call.fn = "datescore_dir"
    /\ out' = [score |-> datescore_dir(0, call.X), swapped |-> datescore_dir(1, call.T)]
    /\ ppc' = "done"
    /\ UNCHANGED <<call, svars, rvars>>

SpecScore == InitScore /\ [][ScoreCall]_vars

\* T and X are whole seconds
WholeSeconds == call.T % TicksPerSec = 0 /\ call.X % TicksPerSec = 0

\* C16: the score is not negative and is the same with T and X swapped;
\* for whole seconds T and X it is |T - X| in seconds, and is 0 exactly
\* when T equals X.
C16_ScoreIsDistance ==
    (ppc = "done" /\ call.fn = "datescore_dir") =>
        /\ out.score >= 0
        /\ out.swapped = out.score
        /\ WholeSeconds =>
              /\ out.score * TicksPerSec = Abs(call.T - call.X)
              /\ out.score = 0 <=> call.T = call.X

\* C16 witness: a directory modified whole seconds before the date has been
\* scored.
C16_Witness ==
    /\ ppc = "done" /\ call.fn = "datescore_dir"
    /\ WholeSeconds
    /\ call.T < call.X
    /\ out.score > 1

(***************************************************************************)
(* remote.py: RemoteRepo as a context, entered and left once.  The ping,   *)
(* mountpoint and mount commands are the environment: what they return is  *)
(* part of the call.                                                       *)
(***************************************************************************)
\* an IPv4 or IPv6 address object
IPAddress(version, packed) == [kind |-> "addr", version |-> version, packed |-> packed]

\* an integer handed over where an address is expected
IPInteger(packed) == [kind |-> "int", version |-> 0, packed |-> packed]

\* ipaddress.ip_address(x): an address is kept, an integer below 2^32 becomes
\* the IPv4 address with that value
ip_address(x) == IF x.kind = "int" THEN IPAddress(4, x.packed) ELSE x

\* LOCALHOST = ip_address("127.0.0.1")
LOCALHOST == IPAddress(4, 2130706433)

\* the addresses a repository is made with: 127.0.0.1 as an object and as an
\* integer, 127.0.0.2, 10.0.0.1 and the IPv6 loopback ::1
ServerIps ==
    {LOCALHOST, IPInteger(2130706433), IPAddress(4, 2130706434),
     IPAddress(4, 167772161), IPAddress(6, 1)}

\* server_ck: Optional[bool]
ServerCks == {"None", "True", "False"}

\* RemoteRepo.__init__: the fields of the new object
RemoteRepo(mountpoint, server_ip, server_ck) ==
    [mountpoint |-> mountpoint,
     passthrough |-> (mountpoint = None),
     server_ip |-> ip_address(server_ip),
     server_ck |-> server_ck]

\* the check is needed for every address but localhost when server_ck is
\* not given
ip_ck_needed_remote_only(self) ==
    IF self.server_ck = "None"
    THEN self.server_ip # LOCALHOST
    ELSE self.server_ck = "True"

\* RemoteRepo._ip_ck_needed
ip_ck_needed(self) ==
    IF self.server_ck = "None"
    THEN IF self.server_ip = LOCALHOST THEN TRUE ELSE FALSE
    ELSE self.server_ck = "True"

\* ping(addr): the command that is run, whether the server counts as good,
\* and the message.  Return code 1 is the only failure: after return code 2
\* the response is parsed like that of a success, and a response that cannot
\* be parsed is a success with an empty message
ping(env) ==
    [cmds |-> <<"ping">>,
     good |-> (env.ping_rc # 1),
     msg |-> IF env.ping_rc = 1 THEN "did not respond"
             ELSE IF env.ping_parses THEN "Server check" ELSE ""]

\* RemoteRepo._ip_ck
ip_ck(self, env) ==
    IF ip_ck_needed(self) THEN ping(env)
    ELSE [cmds |-> <<>>, good |-> TRUE, msg |-> "No check was performed"]

\* mount_remote(mountpoint): the commands that are run and whether the
\* directory counts as mounted
mount_remote(env) ==
    IF env.mounted THEN [cmds |-> <<"mountpoint">>, good |-> TRUE]
    ELSE [cmds |-> <<"mountpoint", "mount">>, good |-> (env.mount_rc = 0)]

\* unmount_remote(mountpoint): the CompletedProcess is compared with 0, so
\* the unmount never counts as successful
unmount_remote(env) == [cmds |-> <<"umount">>, good |-> FALSE]

\* what the commands of the environment return
RemoteEnvs ==
    [ping_rc : {0, 1, 2}, ping_parses : BOOLEAN, mounted : BOOLEAN, mount_rc : {0, 32}]

InitRemote ==
    /\ \E mountpoint \in {None, R}, server_ip \in ServerIps, server_ck \in ServerCks,
          env \in RemoteEnvs :
          /\ call = [fn |-> "RemoteRepo", env |-> env]
          /\ out = [self |-> RemoteRepo(mountpoint, server_ip, server_ck),
                    log |-> <<>>, ck |-> "", ret |-> ""]
    /\ ppc = "enter"
    /\ ReplIdle
    /\ SearchIdle

\* RemoteRepo.__enter__, lines 67-68: nothing is done without a mountpoint
EnterBegin ==
    /\ ppc = "enter"
    /\ call.fn = "RemoteRepo"
    /\ IF out.self.passthrough
       THEN /\ out' = [out EXCEPT !.ret = "None"]
            /\ ppc' = "entered"
       ELSE /\ ppc' = "check"
            /\ UNCHANGED out
    /\ UNCHANGED <<call, svars, rvars>>

\* RemoteRepo.__enter__, lines 70-79: the server is checked if that is needed
EnterCheck ==
    /\ ppc = "check"
    /\ IF ip_ck_needed(out.self)
       THEN LET r == ip_ck(out.self, call.env)
                log == out.log \o <<"ck_start">> \o r.cmds \o <<"ck_stop">>
            IN  IF ~r.good
                THEN /\ out' = [out EXCEPT !.log = log, !.ck = "bad",
                                           !.ret = "Error while checking server"]
                     /\ ppc' = "entered"
                ELSE /\ out' = [out EXCEPT !.log = log, !.ck = "good"]
                     /\ ppc' = "mount"
       ELSE /\ out' = [out EXCEPT !.ck = "skipped"]
            /\ ppc' = "mount"
    /\ UNCHANGED <<call, svars, rvars>>

\* RemoteRepo.__enter__, lines 81-91: the directory is mounted
EnterMount ==
    /\ ppc = "mount"
    /\ LET r == mount_remote(call.env)
           log == out.log \o <<"mnt_start">> \o r.cmds \o <<"mnt_stop">>
       IN  out' = [out EXCEPT !.log = log,
                              !.ret = IF r.good THEN "Path" ELSE "Error while mounting"]
    /\ ppc' = "entered"
    /\ UNCHANGED <<call, svars, rvars>>

\* RemoteRepo.__exit__: the directory is unmounted if there is a mountpoint
Exit ==
    /\ ppc = "entered"
    /\ out' = IF out.self.passthrough THEN out
              ELSE [out EXCEPT !.log = out.log \o unmount_remote(call.env).cmds]
    /\ ppc' = "done"
    /\ UNCHANGED <<call, svars, rvars>>

NextRemote == EnterBegin \/ EnterCheck \/ EnterMount \/ Exit

SpecRemote == InitRemote /\ [][NextRemote]_vars

\* the command was run
Ran(cmd) == \E i \in 1..Len(out.log) : out.log[i] = cmd

\* the repository has a mountpoint and the check is behind it
PastCheck == ~out.self.passthrough /\ ppc \in {"mount", "entered", "done"}

\* a mount is attempted only after a check that was skipped or good, and
\* always after one
MountOnlyAfterCheck ==
    /\ Ran("mnt_start") => out.ck \in {"skipped", "good"}
    /\ (out.ck \in {"skipped", "good"} /\ ppc \in {"entered", "done"}) => Ran("mnt_start")
    /\ out.ck = "skipped" <=> ~Ran("ping")

\* C21: entering a repository that has a mountpoint, with server_ck not
\* given and the server at localhost no ping is run and the mount is
\* attempted; with server_ck given the ping is run exactly when server_ck is
\* true; and a mount is attempted only after a check that was skipped or
\* good.
C21_CheckPolicy ==
    PastCheck =>
        /\ (out.self.server_ck = "None" /\ out.self.server_ip = LOCALHOST) =>
               /\ ~Ran("ping")
               /\ ppc \in {"entered", "done"} => Ran("mnt_start")
        /\ out.self.server_ck # "None" => (Ran("ping") <=> out.self.server_ck = "True")
        /\ MountOnlyAfterCheck

\* what holds of every repository with a mountpoint: with server_ck given
\* the ping is run exactly when it is true, with server_ck not given the ping
\* is run exactly when the server is at localhost, and the mount follows a
\* check that was skipped or good
C21_CheckPolicyAsCoded ==
    PastCheck =>
        /\ out.self.server_ck # "None" => (Ran("ping") <=> out.self.server_ck = "True")
        /\ out.self.server_ck = "None" =>
               (Ran("ping") <=> out.self.server_ip = LOCALHOST)
        /\ MountOnlyAfterCheck

====
